---- MODULE Spec2Model ----
(***************************************************************************)
(* GraphService (src/src/GraphService.ts): four promise caches keyed by    *)
(* id or email, cross-indexed by cacheByIdOrEmail, in front of a batcher   *)
(* (enqueueRequest / processBatch / processResponse) that folds profile    *)
(* requests into one POST /$batch.                                         *)
(*                                                                         *)
(* JavaScript runs one task at a time.  A step of this model is one        *)
(* synchronous run of code together with the promise reactions that were   *)
(* registered on promises it settles.  A reaction registered on a promise  *)
(* that is already fulfilled runs as a microtask after the synchronous     *)
(* code that registered it: these wait in `jobs`, and timers and network   *)
(* completions (macrotasks) run only when `jobs` is empty.                 *)
(***************************************************************************)
EXTENDS Integers, Sequences, FiniteSets, TLC

VARIABLES
    dir,            \* the directory service the session talks to (never changes)
    caches,         \* [profilesCache, photosCache, managersCache, directsCache]: key -> promise
    fut,            \* promise -> its state [st, val, err]
    subs,           \* reactions registered by cacheByIdOrEmail on pending promises, in order
    jobs,           \* reactions registered on fulfilled promises: pending microtasks, in order
    net,            \* promise -> number of logical network requests issued for it
    queue,          \* request id -> key of the url  (the `queue` object)
    lastRequestId,
    batchTimer,     \* the last handle setTimeout returned (0: undefined)
    timers,         \* handles that are armed: neither fired nor cleared
    batches,        \* the processBatch invocations that took a snapshot, in order
    preq,           \* request id -> state of the promise p of enqueueRequest
    sent,           \* request id -> number of batch calls whose body carried it
    ret,            \* <<what the lookup of this step returned>>, <<>> after any other step
    asc             \* the getAllManagers invocations, in call order

vars == <<dir, caches, fut, subs, jobs, net, queue, lastRequestId, batchTimer,
          timers, batches, preq, sent, ret, asc>>

-----------------------------------------------------------------------------
(* Bounds of the model *)

\* cache-miss lookups explored in the organisation world
MaxFetches == 2
\* keys of the bulk world (one profile request each): one more than a full batch
MaxBulkKeys == 21
\* snapshots taken in the bulk world
MaxFlushes == 1
\* keys of the wire world
MaxWireKeys == 2
\* users of the manager chain of the ascent world
ChainLen == 17
\* getAllManagers invocations explored in the ascent world
MaxAscents == 1

(* Constants of the program *)

\* Object.keys(queue).length >= 20
BatchThreshold == 20
\* const maxDepth = 15
MaxDepth == 15

-----------------------------------------------------------------------------
(* Small helpers *)

Put(f, k, v) == [x \in (DOMAIN f) \cup {k} |-> IF x = k THEN v ELSE f[x]]

RECURSIVE Ascending(_)
\* Object.keys of an object whose keys are integers: ascending numeric order
Ascending(S) ==
    IF S = {} THEN <<>>
    ELSE LET m == CHOOSE x \in S : \A y \in S : x <= y
         IN <<m>> \o Ascending(S \ {m})

Reverse(s) == [i \in 1..Len(s) |-> s[Len(s) + 1 - i]]

Pending == [st |-> "pending", val |-> <<>>, err |-> ""]
Fulfilled(v) == [st |-> "ok", val |-> v, err |-> ""]
Rejected(name) == [st |-> "fail", val |-> <<>>, err |-> name]

\* the promise a cache-miss lookup of `key` creates in operation `op`;
\* n > 0: the promise Promise.resolve(direct) of the n-th member of a directs list
Promise(op, key, n) == [op |-> op, key |-> key, n |-> n]

-----------------------------------------------------------------------------
(* The directory service: what the server answers *)

User(id, mail) == [id |-> id, mail |-> mail]

OrgDir ==
    [ world    |-> "org",
      keys     |-> {"a", "ea", "b"},
      users    |-> {User("a", <<"ea">>), User("b", <<>>), User("c", <<>>), User("d", <<>>)},
      manager  |-> [u \in {"a", "b", "c", "d"} |->
                      CASE u = "a" -> <<"b">>
                        [] u = "b" -> <<"a">>
                        [] OTHER   -> <<>>],
      reports  |-> [u \in {"a", "b", "c", "d"} |->
                      IF u = "b"
                      THEN << [id |-> "a", accountEnabled |-> "absent"],
                              [id |-> "c", accountEnabled |-> "false"],
                              [id |-> "d", accountEnabled |-> "true"] >>
                      ELSE <<>>],
      shapes   |-> {"inorder", "neterr"},
      statuses |-> {200, 404},
      fetches  |-> MaxFetches,
      flushes  |-> MaxFetches ]

BulkDir ==
    [ world    |-> "bulk",
      keys     |-> 1..MaxBulkKeys,
      users    |-> {User(i, <<>>) : i \in 1..MaxBulkKeys},
      manager  |-> [u \in 1..MaxBulkKeys |-> <<>>],
      reports  |-> [u \in 1..MaxBulkKeys |-> <<>>],
      shapes   |-> {"inorder", "neterr"},
      statuses |-> {200},
      fetches  |-> MaxBulkKeys,
      flushes  |-> MaxFlushes ]

WireDir ==
    [ world    |-> "wire",
      keys     |-> 1..MaxWireKeys,
      users    |-> {User(i, <<>>) : i \in 1..MaxWireKeys},
      manager  |-> [u \in 1..MaxWireKeys |-> <<>>],
      reports  |-> [u \in 1..MaxWireKeys |-> <<>>],
      shapes   |-> {"inorder", "reversed", "dropfirst", "foreign", "dup",
                    "http500", "http404", "neterr", "badjson"},
      statuses |-> {200, 404, 500},
      fetches  |-> MaxWireKeys,
      flushes  |-> MaxWireKeys ]

\* the ascent world: a manager chain 1 -> 2 -> ... -> ChainLen whose top has no
\* manager, and a cycle of two users; getAllManagers is called for the bottom
\* of the chain, for a user three below its top, for its top, and in the cycle
AscentDir ==
    LET n == ChainLen
        ids == 1..(n + 2)
    IN [ world    |-> "ascent",
         keys     |-> {1, n - 3, n, n + 1},
         users    |-> {User(i, <<>>) : i \in ids},
         manager  |-> [u \in ids |->
                         CASE u < n     -> <<u + 1>>
                           [] u = n     -> <<>>
                           [] u = n + 1 -> <<n + 2>>
                           [] u = n + 2 -> <<n + 1>>],
         reports  |-> [u \in ids |-> <<>>],
         shapes   |-> {"inorder"},
         statuses |-> {200},
         fetches  |-> n + 2,
         flushes  |-> 0,
         ascents  |-> MaxAscents ]

\* the user a lookup key (an id or a mail address) names
UserOf(k) == CHOOSE u \in dir.users : u.id = k \/ u.mail = <<k>>
UserById(id) == CHOOSE u \in dir.users : u.id = id

-----------------------------------------------------------------------------
(* buildProfile, buildErrorFromResponse *)

buildProfile(data) == [id |-> data.id, email |-> data.mail]

buildErrorFromResponse(status) == IF status = 404 THEN "NotFound" ELSE "Error"

ResponseOk(status) == status >= 200 /\ status <= 299

-----------------------------------------------------------------------------
(* cacheByIdOrEmail.  A store is [caches, fut, subs, jobs]. *)

Store == [caches |-> caches, fut |-> fut, subs |-> subs, jobs |-> jobs]

\* store under the id only, without the email
StoreUnderIdOnly(cs, cacheStorage, profile, value) ==
    [cs EXCEPT ![cacheStorage] = Put(@, profile.id, value)]

\* the reaction of cacheByIdOrEmail: lines 89-94
StoreUnder(cs, cacheStorage, profile, value) ==
    LET c1 == Put(cs[cacheStorage], profile.id, value)
        c2 == IF Len(profile.email) > 0
              THEN Put(c1, profile.email[1], value)
              ELSE c1
    IN [cs EXCEPT ![cacheStorage] = c2]

\* cacheByIdOrEmail(profilePromise, value, cacheStorage); profilePromise is
\* <<>> when undefined, <<p>> otherwise
cacheByIdOrEmail(s, profilePromise, value, cacheStorage) ==
    IF profilePromise = <<>> THEN s
    ELSE LET d == profilePromise[1]
             r == [driver |-> d, value |-> value, cache |-> cacheStorage]
         IN IF s.fut[d].st = "pending" THEN [s EXCEPT !.subs = Append(@, r)]
            ELSE IF s.fut[d].st = "ok" THEN [s EXCEPT !.jobs = Append(@, r)]
            ELSE s

RECURSIVE RunReactions(_, _, _)
RunReactions(cs, rs, profile) ==
    IF rs = <<>> THEN cs
    ELSE RunReactions(StoreUnder(cs, Head(rs).cache, profile, Head(rs).value),
                      Tail(rs), profile)

\* promise p settles with outcome o: its reactions run in registration order
Settle(s, p, o) ==
    IF s.fut[p].st # "pending" THEN s
    ELSE LET mine == SelectSeq(s.subs, LAMBDA r : r.driver = p)
             rest == SelectSeq(s.subs, LAMBDA r : r.driver # p)
         IN [s EXCEPT !.fut = [@ EXCEPT ![p] = o],
                      !.subs = rest,
                      !.caches = IF o.st = "ok"
                                 THEN RunReactions(@, mine, o.val[1])
                                 ELSE @]

CacheOf(s, cacheStorage, k) ==
    IF k \in DOMAIN s.caches[cacheStorage] THEN <<s.caches[cacheStorage][k]>> ELSE <<>>

Created == Cardinality({p \in DOMAIN fut : p.n = 0})
CanFetch == Created < dir.fetches

-----------------------------------------------------------------------------
(* The batcher: enqueueRequest, processBatch *)

Batcher == [queue |-> queue, lastRequestId |-> lastRequestId, batchTimer |-> batchTimer,
            timers |-> timers, batches |-> batches, preq |-> preq, sent |-> sent]

PendingReq == [st |-> "pending", res |-> <<>>, err |-> ""]

InFlight(bs) == \E i \in DOMAIN bs : bs[i].stage = "fetch"

\* processBatch up to its first await (lines 138-155): snapshot the queue,
\* replace it by an empty one, build `requests`, ask for the token.
\* caller: the request id of the enqueueRequest awaiting it, 0 for the timer.
processBatch(b, caller) ==
    IF DOMAIN b.queue = {} THEN b
    ELSE LET ids == Ascending(DOMAIN b.queue)
         IN [b EXCEPT !.queue = << >>,
                      !.batches = Append(@,
                        [ pq |-> b.queue,
                          requests |-> [i \in 1..Len(ids) |->
                                          [id |-> ids[i], url |-> b.queue[ids[i]]]],
                          stage |-> "token", caller |-> caller, body |-> <<>>,
                          shape |-> "", caught |-> "",
                          overtaken |-> FALSE ])]

\* lines 129-132: clear the timer of the last handle, arm a new one
RearmTimer(b) ==
    [b EXCEPT !.batchTimer = @ + 1,
              !.timers = (@ \ {b.batchTimer}) \cup {b.batchTimer + 1}]

\* the size test with > for >=
FlushLate(n) == n > BatchThreshold

\* line 126: Object.keys(queue).length >= 20
FlushAt(n) == n >= BatchThreshold

\* enqueueRequest up to its first suspension (lines 114-132)
enqueueRequest(b, url) ==
    LET id == b.lastRequestId + 1
        b1 == [b EXCEPT !.lastRequestId = id,
                        !.queue = Put(@, id, url),
                        !.preq = Put(@, id, PendingReq),
                        !.sent = Put(@, id, 0)]
    IN IF FlushAt(Cardinality(DOMAIN b1.queue))
       THEN processBatch(b1, id)    \* awaits processBatch: lines 129-134 run on its return
       ELSE RearmTimer(b1)

\* would this enqueue take a snapshot?
WouldFlush == FlushAt(Cardinality(DOMAIN queue) + 1)

CommitStore(s) ==
    /\ caches' = s.caches
    /\ fut' = s.fut
    /\ subs' = s.subs
    /\ jobs' = s.jobs

CommitBatcher(b) ==
    /\ queue' = b.queue
    /\ lastRequestId' = b.lastRequestId
    /\ batchTimer' = b.batchTimer
    /\ timers' = b.timers
    /\ batches' = b.batches
    /\ preq' = b.preq
    /\ sent' = b.sent

BatcherUnchanged == UNCHANGED <<queue, lastRequestId, batchTimer, timers, batches, preq, sent>>

-----------------------------------------------------------------------------
(* The four lookups *)

\* a cache miss: the promise is created, counted and stored under the key
Miss(s, cacheStorage, p, k) ==
    [s EXCEPT !.fut = Put(@, p, Pending),
              !.caches = [@ EXCEPT ![cacheStorage] = Put(@, k, p)]]

Returned(op, k, s, cacheStorage, fresh) ==
    ret' = << [op |-> op, key |-> k, p |-> s.caches[cacheStorage][k], fresh |-> fresh] >>

Count(p) == net' = Put(net, p, IF p \in DOMAIN net THEN net[p] + 1 ELSE 1)

resolveProfile(k) ==
    LET p == Promise("profile", k, 0) IN
    IF k \notin DOMAIN caches.profilesCache
    THEN /\ CanFetch
         /\ WouldFlush => Len(batches) < dir.flushes
         /\ LET s1 == Miss(Store, "profilesCache", p, k)
                s2 == cacheByIdOrEmail(s1, <<p>>, p, "profilesCache")
            IN /\ CommitStore(s2)
               /\ Returned("profile", k, s2, "profilesCache", TRUE)
         /\ CommitBatcher(enqueueRequest(Batcher, k))
         /\ Count(p)
         /\ UNCHANGED dir
    ELSE /\ Returned("profile", k, Store, "profilesCache", FALSE)
         /\ BatcherUnchanged
         /\ UNCHANGED <<dir, caches, fut, subs, jobs, net>>

getPhotoUrl(k) ==
    LET p == Promise("photo", k, 0) IN
    IF k \notin DOMAIN caches.photosCache
    THEN /\ CanFetch
         /\ LET s1 == Miss(Store, "photosCache", p, k)
                s2 == cacheByIdOrEmail(s1, CacheOf(s1, "profilesCache", k), p, "photosCache")
            IN /\ CommitStore(s2)
               /\ Returned("photo", k, s2, "photosCache", TRUE)
         /\ Count(p)
         /\ BatcherUnchanged
         /\ UNCHANGED dir
    ELSE /\ Returned("photo", k, Store, "photosCache", FALSE)
         /\ BatcherUnchanged
         /\ UNCHANGED <<dir, caches, fut, subs, jobs, net>>

\* getManager without line 39
getManagerNoSeed(k) ==
    LET p == Promise("manager", k, 0) IN
    IF k \notin DOMAIN caches.managersCache
    THEN /\ CanFetch
         /\ LET s1 == Miss(Store, "managersCache", p, k)
                s2 == cacheByIdOrEmail(s1, CacheOf(s1, "profilesCache", k), p, "managersCache")
            IN /\ CommitStore(s2)
               /\ Returned("manager", k, s2, "managersCache", TRUE)
         /\ Count(p)
         /\ BatcherUnchanged
         /\ UNCHANGED dir
    ELSE /\ Returned("manager", k, Store, "managersCache", FALSE)
         /\ BatcherUnchanged
         /\ UNCHANGED <<dir, caches, fut, subs, jobs, net>>

getManager(k) ==
    LET p == Promise("manager", k, 0) IN
    IF k \notin DOMAIN caches.managersCache
    THEN /\ CanFetch
         /\ LET s1 == Miss(Store, "managersCache", p, k)
                s2 == cacheByIdOrEmail(s1, CacheOf(s1, "profilesCache", k), p, "managersCache")
                s3 == cacheByIdOrEmail(s2, <<p>>, p, "profilesCache")
            IN /\ CommitStore(s3)
               /\ Returned("manager", k, s3, "managersCache", TRUE)
         /\ Count(p)
         /\ BatcherUnchanged
         /\ UNCHANGED dir
    ELSE /\ Returned("manager", k, Store, "managersCache", FALSE)
         /\ BatcherUnchanged
         /\ UNCHANGED <<dir, caches, fut, subs, jobs, net>>

getDirects(k) ==
    LET p == Promise("directs", k, 0) IN
    IF k \notin DOMAIN caches.directsCache
    THEN /\ CanFetch
         /\ LET s1 == Miss(Store, "directsCache", p, k)
                s2 == cacheByIdOrEmail(s1, CacheOf(s1, "profilesCache", k), p, "directsCache")
            IN /\ CommitStore(s2)
               /\ Returned("directs", k, s2, "directsCache", TRUE)
         /\ Count(p)
         /\ BatcherUnchanged
         /\ UNCHANGED dir
    ELSE /\ Returned("directs", k, Store, "directsCache", FALSE)
         /\ BatcherUnchanged
         /\ UNCHANGED <<dir, caches, fut, subs, jobs, net>>

\* a microtask: the reaction of cacheByIdOrEmail on a promise that was
\* already fulfilled when it was registered
RunJob ==
    /\ jobs # <<>>
    /\ LET r == Head(jobs)
       IN caches' = StoreUnder(caches, r.cache, fut[r.driver].val[1], r.value)
    /\ jobs' = Tail(jobs)
    /\ ret' = <<>>
    /\ BatcherUnchanged
    /\ UNCHANGED <<dir, fut, subs, net>>

-----------------------------------------------------------------------------
(* The batcher's continuations *)

\* onResolve / onReject of a PendingRequest: a promise settles once, the
\* first call wins
onResolve(pr, id, res) ==
    IF pr[id].st = "pending"
    THEN [pr EXCEPT ![id].st = "ok", ![id].res = <<res>>]
    ELSE pr

onReject(pr, id, e) ==
    IF pr[id].st = "pending"
    THEN [pr EXCEPT ![id].st = "fail", ![id].err = e]
    ELSE pr

\* resolveProfileInternal after `await enqueueRequest(...)` (lines 100-105);
\* o is the settled state of the request's promise
resolveProfileInternal(o) ==
    IF o.st = "ok"
    THEN IF o.res[1].status < 400
         THEN Fulfilled(<<buildProfile(o.res[1].body[1])>>)
         ELSE Rejected("Error")
    ELSE Rejected(o.err)

\* a timer callback runs while these flushes still await their token
Overtake(bs) ==
    [i \in DOMAIN bs |-> IF bs[i].stage = "token" THEN [bs[i] EXCEPT !.overtaken = TRUE]
                         ELSE bs[i]]

\* the timer callback (line 132): processBatch
TimerFire(t) ==
    /\ t \in timers
    /\ jobs = <<>>
    /\ DOMAIN queue # {} => Len(batches) < dir.flushes
    /\ CommitBatcher(processBatch([Batcher EXCEPT !.timers = @ \ {t},
                                                  !.batches = Overtake(@)], 0))
    /\ ret' = <<>>
    /\ UNCHANGED <<dir, caches, fut, subs, jobs, net>>

\* getAuthToken() of batch b resolves (line 155): the batch call is issued
\* (lines 156-166), its body holding `requests`
AuthOk(b) ==
    /\ b \in DOMAIN batches
    /\ batches[b].stage = "token"
    /\ jobs = <<>>
    /\ batches' = [batches EXCEPT ![b].stage = "fetch",
                                  ![b].body = <<batches[b].requests>>]
    /\ sent' = [r \in DOMAIN sent |->
                  IF r \in DOMAIN batches[b].pq THEN sent[r] + 1 ELSE sent[r]]
    /\ ret' = <<>>
    /\ UNCHANGED <<dir, caches, fut, subs, jobs, net, queue, lastRequestId,
                   batchTimer, timers, preq>>

\* getAuthToken() of batch b rejects (line 155, outside the try): processBatch
\* rejects; an enqueueRequest awaiting it (line 127) rejects in turn, and so
\* does the resolveProfileInternal awaiting that one
AuthFail(b) ==
    /\ b \in DOMAIN batches
    /\ batches[b].stage = "token"
    /\ jobs = <<>>
    /\ batches' = [batches EXCEPT ![b].stage = "dropped"]
    /\ LET c == batches[b].caller
       IN CommitStore(IF c = 0 THEN Store
                      ELSE Settle(Store, Promise("profile", batches[b].pq[c], 0),
                                  Rejected("AuthError")))
    /\ ret' = <<>>
    /\ UNCHANGED <<dir, net, queue, lastRequestId, batchTimer, timers, preq, sent>>

Entry(pq, id, status) ==
    [id |-> id, status |-> status,
     body |-> IF status < 400 THEN <<UserOf(pq[id])>> ELSE <<>>]

\* an id no request of the snapshot has
ForeignId(B) == B.requests[Len(B.requests)].id + 1

\* the `responses` collection of a batch response of the given shape
Responses(B, shape, status) ==
    LET good == [i \in 1..Len(B.requests) |->
                    Entry(B.pq, B.requests[i].id, status[B.requests[i].id])]
        alien == [id |-> ForeignId(B), status |-> 200, body |-> <<>>]
    IN CASE shape = "inorder"   -> good
         [] shape = "reversed"  -> Reverse(good)
         [] shape = "dropfirst" -> Tail(good)
         [] shape = "foreign"   -> <<good[1], alien>> \o Tail(good)
         [] shape = "dup"       -> <<good[1]>> \o good

\* dispatch by position in the collection instead of by id
TargetByPosition(B, responses, i) ==
    IF i \in DOMAIN B.requests THEN B.requests[i].id ELSE ForeignId(B)

\* line 236: the request the i-th entry is dispatched to: processingQueue[res.id]
Target(B, responses, i) == responses[i].id

RECURSIVE Dispatch(_, _, _, _)
\* the loop of lines 235-237 from entry i on; stops at the first entry whose
\* target is not in processingQueue (a TypeError)
Dispatch(B, responses, i, pr) ==
    IF i > Len(responses) THEN [preq |-> pr, threw |-> FALSE, order |-> <<>>]
    ELSE LET t == Target(B, responses, i)
         IN IF t \notin DOMAIN B.pq
            THEN [preq |-> pr, threw |-> TRUE, order |-> <<>>]
            ELSE LET rest == Dispatch(B, responses, i + 1, onResolve(pr, t, responses[i]))
                 IN [rest EXCEPT !.order = <<t>> \o @]

RECURSIVE RejectAll(_, _, _)
\* lines 170-172
RejectAll(pr, ids, e) ==
    IF ids = <<>> THEN pr
    ELSE RejectAll(onReject(pr, Head(ids), e), Tail(ids), e)

\* every request of the snapshot is rejected with e (the catch, lines 168-173)
Caught(B, pr, e, order) ==
    LET ids == [i \in 1..Len(B.requests) |-> B.requests[i].id]
    IN [preq |-> RejectAll(pr, ids, e), order |-> order \o ids, caught |-> e]

\* the try of processBatch and processResponse (lines 165-173, 232-241) for
\* a fetch outcome of the given shape: the requests' promises afterwards, the
\* order in which they were called, and the error caught ("" when none)
processResponse(B, shape, status, pr) ==
    CASE shape = "neterr"  -> Caught(B, pr, "TypeError", <<>>)
      [] shape = "badjson" -> Caught(B, pr, "SyntaxError", <<>>)
      [] shape = "http500" -> Caught(B, pr, buildErrorFromResponse(500), <<>>)
      [] shape = "http404" -> Caught(B, pr, buildErrorFromResponse(404), <<>>)
      [] OTHER ->
           LET d == Dispatch(B, Responses(B, shape, status), 1, pr)
           IN IF d.threw
              THEN Caught(B, d.preq, "TypeError", d.order)
              ELSE [preq |-> d.preq, order |-> d.order, caught |-> ""]

RECURSIVE SettleProfiles(_, _, _, _)
\* the resolveProfileInternal continuations of the requests in `order`
SettleProfiles(s, order, pq, pr) ==
    IF order = <<>> THEN s
    ELSE LET id == Head(order)
             s1 == IF pr[id].st = "pending" THEN s
                   ELSE Settle(s, Promise("profile", pq[id], 0),
                               resolveProfileInternal(pr[id]))
         IN SettleProfiles(s1, Tail(order), pq, pr)

\* the fetch of batch b completes: processResponse or the catch (lines
\* 165-173), then the continuations of the callers, the one of the
\* enqueueRequest that awaited processBatch last (it re-arms the timer first,
\* lines 129-134)
BatchDone(b, shape, status) ==
    /\ b \in DOMAIN batches
    /\ batches[b].stage = "fetch"
    /\ jobs = <<>>
    /\ LET B == batches[b]
           r == processResponse(B, shape, status, preq)
           c == B.caller
           order == SelectSeq(r.order, LAMBDA id : id # c)
                    \o (IF c = 0 THEN <<>> ELSE <<c>>)
           bt == [Batcher EXCEPT !.preq = r.preq,
                                 !.batches = [@ EXCEPT ![b].stage = "done",
                                                       ![b].shape = shape,
                                                       ![b].caught = r.caught]]
       IN /\ CommitBatcher(IF c = 0 THEN bt ELSE RearmTimer(bt))
          /\ CommitStore(SettleProfiles(Store, order, B.pq, r.preq))
    /\ ret' = <<>>
    /\ UNCHANGED <<dir, net>>

-----------------------------------------------------------------------------
(* The direct fetches' completions *)

\* getPhotoUrlInternal: the response arrives (lines 201-207)
getPhotoUrlInternal(k, status) ==
    LET p == Promise("photo", k, 0) IN
    /\ p \in DOMAIN fut
    /\ fut[p].st = "pending"
    /\ jobs = <<>>
    /\ CommitStore(Settle(Store, p,
            IF ResponseOk(status) THEN Fulfilled(<<"blob">>)
            ELSE Rejected(buildErrorFromResponse(status))))
    /\ ret' = <<>>
    /\ BatcherUnchanged
    /\ UNCHANGED <<dir, net>>

\* the statuses the server answers GET /users/k/manager with
ManagerStatuses(k) ==
    (IF dir.manager[UserOf(k).id] # <<>> THEN {200} ELSE {404}) \cup {500}

\* getManagerInternal: the response arrives (lines 184-190)
getManagerInternal(k, status) ==
    LET p == Promise("manager", k, 0) IN
    /\ p \in DOMAIN fut
    /\ fut[p].st = "pending"
    /\ jobs = <<>>
    /\ CommitStore(Settle(Store, p,
            IF ResponseOk(status)
            THEN Fulfilled(<<buildProfile(UserById(dir.manager[UserOf(k).id][1]))>>)
            ELSE Rejected(buildErrorFromResponse(status))))
    /\ ret' = <<>>
    /\ BatcherUnchanged
    /\ UNCHANGED <<dir, net>>

\* data.value of GET /users/k/directReports
DirectReports(k) ==
    LET rs == dir.reports[UserOf(k).id]
    IN [i \in 1..Len(rs) |->
          [id |-> rs[i].id, mail |-> UserById(rs[i].id).mail,
           accountEnabled |-> rs[i].accountEnabled]]

\* a filter that keeps the members whose accountEnabled is true
FilterTruthy(value) ==
    LET kept == SelectSeq(value, LAMBDA m : m.accountEnabled = "true")
    IN [i \in 1..Len(kept) |-> buildProfile(kept[i])]

\* lines 221-224
FilterEnabled(value) ==
    LET kept == SelectSeq(value, LAMBDA m : m.accountEnabled # "false")
    IN [i \in 1..Len(kept) |-> buildProfile(kept[i])]

\* a getDirects that seeds nothing
SeedNothing(s, k, directs, i) == s

RECURSIVE SeedProfiles(_, _, _, _)
\* lines 72-76: each member from the i-th on is stored in profilesCache
\* under its id and email, as Promise.resolve(direct)
SeedProfiles(s, k, directs, i) ==
    IF i > Len(directs) THEN s
    ELSE LET p == Promise("seed", k, i)
             s1 == [s EXCEPT !.fut = Put(@, p, Fulfilled(<<directs[i]>>)),
                             !.caches = StoreUnder(@, "profilesCache", directs[i], p)]
         IN SeedProfiles(s1, k, directs, i + 1)

\* getDirectsInternal: the response arrives (lines 218-227), then the
\* reaction of getDirects (lines 71-77)
getDirectsInternal(k, status) ==
    LET p == Promise("directs", k, 0) IN
    /\ p \in DOMAIN fut
    /\ fut[p].st = "pending"
    /\ jobs = <<>>
    /\ IF ResponseOk(status)
       THEN LET directs == FilterEnabled(DirectReports(k))
            IN CommitStore(SeedProfiles(Settle(Store, p, Fulfilled(directs)), k, directs, 1))
       ELSE CommitStore(Settle(Store, p, Rejected(buildErrorFromResponse(status))))
    /\ ret' = <<>>
    /\ BatcherUnchanged
    /\ UNCHANGED <<dir, net>>

-----------------------------------------------------------------------------
(* getAllManagers *)

\* the loop test `i < maxDepth` with one more than maxDepth
MoreAscentInclusive(i) == i <= MaxDepth

\* line 50: i < maxDepth
MoreAscent(i) == i < MaxDepth

\* a catch that swallows no failure
EndsAscentNever(e) == FALSE

\* a catch that swallows every failure
EndsAscentAlways(e) == TRUE

\* lines 55-59: the failure that ends the ascent without error
EndsAscent(e) == e = "NotFound"

\* the lookup an invocation awaits: its last one
Awaited(a) == a.lookups[Len(a.lookups)]

\* the invocation can resume: the promise it awaits is settled
Resumable(c) ==
    /\ c \in DOMAIN asc
    /\ asc[c].st = "run"
    /\ fut[Awaited(asc[c]).p].st # "pending"

\* getAllManagers(emailOrId) up to its first await (lines 45-51): the first
\* getManager lookup
getAllManagers(k) ==
    /\ Len(asc) < dir.ascents
    /\ getManager(k)
    /\ asc' = Append(asc, [ start |-> k, i |-> 0, res |-> <<>>,
                            lookups |-> << [key |-> k, p |-> ret'[1].p] >>,
                            st |-> "run", err |-> "", out |-> <<>> ])

\* the invocation resumes after `await getManager(emailOrId)` (lines 51-59):
\* on success the manager is pushed and, while i < maxDepth, looked up in
\* turn by its id; NotFound returns res; any other failure is rethrown
AscentStep(c) ==
    /\ Resumable(c)
    /\ jobs = <<>>
    /\ LET a == asc[c]
           o == fut[Awaited(a).p]
       IN IF o.st = "ok"
          THEN LET manager == o.val[1]
                   res == Append(a.res, manager)
                   i == a.i + 1
               IN IF MoreAscent(i)
                  THEN /\ getManager(manager.id)
                       /\ asc' = [asc EXCEPT ![c].res = res, ![c].i = i,
                                     ![c].lookups = Append(@, [key |-> manager.id,
                                                               p |-> ret'[1].p])]
                  ELSE /\ asc' = [asc EXCEPT ![c].res = res, ![c].i = i,
                                     ![c].st = "done", ![c].out = res]
                       /\ ret' = <<>>
                       /\ BatcherUnchanged
                       /\ UNCHANGED <<dir, caches, fut, subs, jobs, net>>
          ELSE /\ asc' = IF EndsAscent(o.err)
                         THEN [asc EXCEPT ![c].st = "done", ![c].out = a.res]
                         ELSE [asc EXCEPT ![c].st = "fail", ![c].err = o.err]
               /\ ret' = <<>>
               /\ BatcherUnchanged
               /\ UNCHANGED <<dir, caches, fut, subs, jobs, net>>

-----------------------------------------------------------------------------
(* Specifications *)

InitWith(d) ==
    /\ dir = d
    /\ caches = [profilesCache |-> << >>, photosCache |-> << >>,
                 managersCache |-> << >>, directsCache |-> << >>]
    /\ fut = << >>
    /\ subs = << >>
    /\ jobs = << >>
    /\ net = << >>
    /\ queue = << >>
    /\ lastRequestId = 0
    /\ batchTimer = 0
    /\ timers = {}
    /\ batches = << >>
    /\ preq = << >>
    /\ sent = << >>
    /\ ret = << >>
    /\ asc = << >>

BatcherSteps ==
    \/ \E t \in timers : TimerFire(t) /\ UNCHANGED asc
    \/ \E b \in DOMAIN batches : AuthOk(b) /\ UNCHANGED asc
    \/ \E b \in DOMAIN batches : AuthFail(b) /\ UNCHANGED asc
    \/ \E b \in DOMAIN batches : \E shape \in dir.shapes :
          \E status \in [DOMAIN batches[b].pq -> dir.statuses] :
             BatchDone(b, shape, status) /\ UNCHANGED asc

\* the organisation world: the four operations on one small directory
Init == InitWith(OrgDir)

Next ==
    \/ \E k \in dir.keys : resolveProfile(k) /\ UNCHANGED asc
    \/ \E k \in dir.keys : getPhotoUrl(k) /\ UNCHANGED asc
    \/ \E k \in dir.keys : getManager(k) /\ UNCHANGED asc
    \/ \E k \in dir.keys : getDirects(k) /\ UNCHANGED asc
    \/ RunJob /\ UNCHANGED asc
    \/ \E k \in dir.keys : \E status \in {200, 404, 500} :
          getPhotoUrlInternal(k, status) /\ UNCHANGED asc
    \/ \E k \in dir.keys : \E status \in ManagerStatuses(k) :
          getManagerInternal(k, status) /\ UNCHANGED asc
    \/ \E k \in dir.keys : \E status \in {200, 500} :
          getDirectsInternal(k, status) /\ UNCHANGED asc
    \/ BatcherSteps

Spec == Init /\ [][Next]_vars

\* the bulk world: as many distinct profiles as it takes to fill a batch
InitBatch == InitWith(BulkDir)

\* each key is looked up once, in ascending order (the keys are interchangeable)
NextBatch ==
    \/ \E k \in dir.keys : k = lastRequestId + 1 /\ resolveProfile(k) /\ UNCHANGED asc
    \/ BatcherSteps

SpecBatch == InitBatch /\ [][NextBatch]_vars

\* the wire world: few profiles, every shape of batch response
InitWire == InitWith(WireDir)

SpecWire == InitWire /\ [][NextBatch]_vars

\* the ascent world: getAllManagers over manager chains and cycles
InitAscent == InitWith(AscentDir)

AscentSteps == \E c \in DOMAIN asc : AscentStep(c)

\* a manager response arrives; a macrotask, it runs when no invocation can resume
ManagerResponses ==
    \E u \in dir.users : \E status \in ManagerStatuses(u.id) :
        /\ \A c \in DOMAIN asc : ~Resumable(c)
        /\ getManagerInternal(u.id, status)
        /\ UNCHANGED asc

NextAscent ==
    \/ \E k \in dir.keys : getAllManagers(k)
    \/ AscentSteps
    \/ RunJob /\ UNCHANGED asc
    \/ ManagerResponses

\* every lookup completes, and the event loop runs what can run
SpecAscent ==
    /\ InitAscent
    /\ [][NextAscent]_vars
    /\ WF_vars(AscentSteps)
    /\ WF_vars(RunJob /\ UNCHANGED asc)
    /\ WF_vars(ManagerResponses)

-----------------------------------------------------------------------------
(* Properties of the caches (organisation world, Spec) *)

CacheNames == {"profilesCache", "photosCache", "managersCache", "directsCache"}

\* the other lookup key of the user that k names, if it has one
OtherKeys(k) ==
    LET u == UserOf(k)
    IN IF u.mail = <<>> THEN {} ELSE {u.id, u.mail[1]} \ {k}

\* C1: a lookup of key K made while the promise of the first
\* lookup of K in the same operation is still pending issues no request of
\* its own and returns that promise, so that both callers receive the outcome
\* of the one request.
C1_Coalescing ==
    ret # <<>> =>
        LET first == Promise(ret[1].op, ret[1].key, 0)
        IN (first \in DOMAIN fut /\ fut[first].st = "pending")
              => /\ net[first] = 1
                 /\ ret[1].p = first

\* C3: once resolveProfile of one key of a user with an email has succeeded,
\* the profile cache holds one and the same promise under the user's id and
\* under its email, and a lookup by the other key returns that promise and
\* issues no request.
C3_CrossIndexed ==
    \A k \in dir.keys : \A k2 \in OtherKeys(k) :
        LET p == Promise("profile", k, 0)
        IN (p \in DOMAIN fut /\ fut[p].st = "ok")
              => /\ k \in DOMAIN caches.profilesCache
                 /\ k2 \in DOMAIN caches.profilesCache
                 /\ caches.profilesCache[k2] = caches.profilesCache[k]
                 /\ (ret # <<>> /\ ret[1].op = "profile" /\ ret[1].key = k2)
                       => /\ ~ret[1].fresh
                          /\ ret[1].p = caches.profilesCache[k]

\* resolveProfile("a") succeeded, the email was never requested, and a
\* lookup by the email has just returned the promise of the lookup by id
C3_Witness ==
    /\ ret # <<>>
    /\ ret[1].op = "profile" /\ ret[1].key = "ea" /\ ~ret[1].fresh
    /\ ret[1].p = Promise("profile", "a", 0)
    /\ fut[Promise("profile", "a", 0)].st = "ok"
    /\ Promise("profile", "ea", 0) \notin DOMAIN fut

\* C4: a promise that has rejected is stored in its cache only
\* under the lookup key it was requested with.
C4_ErrorsNotCrossIndexed ==
    \A c \in CacheNames : \A k \in DOMAIN caches[c] :
        fut[caches[c][k]].st = "fail" => caches[c][k].key = k

\* C5: once a promise is stored under a key of a cache, that key
\* holds that same promise ever after.
C5_StableEntries ==
    [][\A c \in CacheNames : \A k \in DOMAIN caches[c] :
          k \in DOMAIN caches'[c] /\ caches'[c][k] = caches[c][k]]_vars

-----------------------------------------------------------------------------
(* Properties of the batcher (wire world, SpecWire; bulk world, SpecBatch) *)

Ids(b) == DOMAIN batches[b].pq

\* the last request id of the b-th snapshot; 0 before the first
LastId(b) == IF b = 0 THEN 0 ELSE batches[b].requests[Len(batches[b].requests)].id

\* the batch call of b was issued
Called(b) == batches[b].stage \in {"fetch", "done"}

\* the batch call of b was issued once, with all the requests of the
\* snapshot, and none was issued if the token was not obtained
OneCall(b) ==
    IF Called(b)
    THEN batches[b].body = <<batches[b].requests>> /\ \A id \in Ids(b) : sent[id] = 1
    ELSE batches[b].body = <<>> /\ \A id \in Ids(b) : sent[id] = 0

\* C2: when the flush that carries a request is over, whatever
\* its outcome, the request's promise is settled: resolved with the response
\* entry of its id, or rejected with the failure of its batch.
C2_SettledExactlyOnce ==
    \A b \in DOMAIN batches :
        batches[b].stage \in {"done", "dropped"} =>
            \A id \in Ids(b) :
                \/ preq[id].st = "ok" /\ preq[id].res[1].id = id
                \/ preq[id].st = "fail" /\ preq[id].err = batches[b].caught

\* C9: a request's promise is only ever resolved with the entry of its own
\* id, and its caller gets the profile of its own url; after a successful
\* response holding one entry per request of the snapshot, in request order
\* or reversed, every request of the snapshot is resolved so.
C9_IdDispatch ==
    /\ \A id \in DOMAIN preq :
          preq[id].st = "ok" => preq[id].res[1].id = id
    /\ \A b \in DOMAIN batches : \A id \in Ids(b) :
          LET p == Promise("profile", batches[b].pq[id], 0)
          IN fut[p].st = "ok" => fut[p].val[1].id = UserOf(batches[b].pq[id]).id
    /\ \A b \in DOMAIN batches :
          (batches[b].stage = "done" /\ batches[b].shape \in {"inorder", "reversed"})
              => \A id \in Ids(b) : preq[id].st = "ok" /\ preq[id].res[1].id = id

\* a batch of two requests was answered in reverse order
C9_Witness ==
    \E b \in DOMAIN batches :
        /\ batches[b].stage = "done"
        /\ batches[b].shape = "reversed"
        /\ Len(batches[b].requests) >= 2
        /\ \A id \in Ids(b) : preq[id].st = "ok"

\* C10: when the batch call fails, every request of the
\* snapshot is rejected with that one failure and none is resolved.
C10_AllOrNothing ==
    \A b \in DOMAIN batches :
        (batches[b].stage = "done" /\ batches[b].caught # "")
            => \A id \in Ids(b) :
                  preq[id].st = "fail" /\ preq[id].err = batches[b].caught

\* C6: once the flush that the 20th enqueue starts is past its token, it has
\* issued exactly one batch call, holding all 20 requests, each sent once,
\* and no timer callback ran before that call.
C6_SizeFlushOneCall ==
    \A b \in DOMAIN batches :
        (batches[b].caller # 0 /\ batches[b].stage # "token")
            => /\ ~batches[b].overtaken
               /\ batches[b].body = <<batches[b].requests>>
               /\ \A id \in Ids(b) : sent[id] = 1

\* What the code does keep of the size-triggered flush: the queue never holds
\* 20 requests when a step ends, the enqueue that makes it 20 takes the
\* snapshot itself, of exactly those 20 consecutive requests, which are then
\* in no other snapshot nor in the queue; the flush issues one batch call
\* with all 20 if it gets the token, and none if it does not.
SizeFlushStructure ==
    /\ Cardinality(DOMAIN queue) < BatchThreshold
    /\ \A b \in DOMAIN batches :
          batches[b].caller # 0 =>
              /\ Len(batches[b].requests) = BatchThreshold
              /\ \A i \in 1..BatchThreshold :
                    batches[b].requests[i].id = batches[b].caller - BatchThreshold + i
              /\ Ids(b) \cap DOMAIN queue = {}
              /\ \A b2 \in DOMAIN batches : b2 # b => Ids(b) \cap Ids(b2) = {}
              /\ OneCall(b)

\* C7: once the flush of a timer callback is past its token, it has issued
\* exactly one batch call, whose body holds exactly the N < 20 requests
\* enqueued before the timer fired, each sent once.
C7_DebounceOneCall ==
    \A b \in DOMAIN batches :
        (batches[b].caller = 0 /\ batches[b].stage # "token")
            => /\ Len(batches[b].requests) \in 1..(BatchThreshold - 1)
               /\ batches[b].body = <<batches[b].requests>>
               /\ \A id \in Ids(b) : sent[id] = 1

\* What the code does keep of the debounce: at most one timer is armed, the
\* one of the last enqueue, and one is armed whenever the queue is not empty;
\* the queue holds exactly the requests enqueued since the last snapshot; the
\* snapshot of a timer callback holds exactly the N < 20 requests enqueued
\* since the snapshot before it; its flush issues one batch call with those N
\* if it gets the token, and none if it does not.
DebounceStructure ==
    /\ Cardinality(timers) <= 1
    /\ timers \subseteq {batchTimer}
    /\ DOMAIN queue # {} => timers # {}
    /\ DOMAIN queue = (LastId(Len(batches)) + 1)..lastRequestId
    /\ \A b \in DOMAIN batches :
          batches[b].caller = 0 =>
              /\ Len(batches[b].requests) \in 1..(BatchThreshold - 1)
              /\ \A i \in DOMAIN batches[b].requests :
                    batches[b].requests[i].id = LastId(b - 1) + i
              /\ OneCall(b)

\* C8: every request is in the queue or in exactly one snapshot, and once
\* the flush of its snapshot is past its token it was sent in exactly one
\* batch call; a request is settled only by the batch of its own snapshot.
C8_SentInOneCall ==
    /\ \A id \in 1..lastRequestId :
          Cardinality({b \in DOMAIN batches : id \in Ids(b)})
             + (IF id \in DOMAIN queue THEN 1 ELSE 0) = 1
    /\ \A b \in DOMAIN batches : \A id \in Ids(b) :
          /\ batches[b].stage # "token" => sent[id] = 1
          /\ preq[id].st # "pending" => batches[b].stage = "done"

\* What the code does keep of snapshot-and-replace: every request is in the
\* queue or in exactly one snapshot; it is sent in at most one batch call, in
\* exactly one if its flush gets the token; it is settled only when the batch
\* of its own snapshot is done; a request enqueued while a batch call is in
\* flight is in the queue, in none of the snapshots in flight, and a timer is
\* armed to flush it.
SnapshotStructure ==
    /\ \A id \in 1..lastRequestId :
          Cardinality({b \in DOMAIN batches : id \in Ids(b)})
             + (IF id \in DOMAIN queue THEN 1 ELSE 0) = 1
    /\ \A id \in DOMAIN queue : sent[id] = 0 /\ preq[id].st = "pending"
    /\ \A b \in DOMAIN batches : OneCall(b)
    /\ \A b \in DOMAIN batches : \A id \in Ids(b) :
          preq[id].st # "pending" => batches[b].stage = "done"
    /\ DOMAIN queue # {} => timers # {}
    /\ (ret # <<>> /\ ret[1].fresh /\ InFlight(batches))
          => \A b \in DOMAIN batches :
                batches[b].stage = "fetch" => lastRequestId \notin Ids(b)

-----------------------------------------------------------------------------
(* Properties of getAllManagers (ascent world, SpecAscent) *)

\* C11: whatever the manager graph (a chain deeper than 15, a shorter one, a
\* cycle), an invocation of getAllManagers makes at most
\* 15 manager lookups, collects and returns at most 15 profiles, and, every
\* lookup completing, it completes.
C11_BoundedAscent ==
    /\ [](\A c \in DOMAIN asc :
            /\ Len(asc[c].lookups) <= MaxDepth
            /\ Len(asc[c].res) <= MaxDepth
            /\ Len(asc[c].out) <= MaxDepth)
    /\ \A c \in 1..MaxAscents :
          (c \in DOMAIN asc) ~> (c \in DOMAIN asc /\ asc[c].st # "run")

\* an ascent of a cycle of two users returned 15 profiles after 15 lookups
C11_Witness ==
    \E c \in DOMAIN asc :
        /\ asc[c].start = ChainLen + 1
        /\ asc[c].st = "done"
        /\ Len(asc[c].lookups) = MaxDepth
        /\ Len(asc[c].out) = MaxDepth
        /\ asc[c].out[MaxDepth].id = ChainLen + 2

\* C12: when the first k lookups of an invocation succeeded (k < 15) and
\* lookup k+1 failed with NotFound, the invocation returns without error
\* exactly the k profiles obtained, in lookup order: the first lookup is by
\* the key of the call, lookup i+1 by the id of the profile lookup i
\* returned, and profile i is the manager of the user lookup i names.
C12_NotFoundEndsAscent ==
    \A c \in DOMAIN asc :
        LET a == asc[c]
            o == fut[Awaited(a).p]
        IN (a.st # "run" /\ o.st = "fail" /\ o.err = "NotFound")
              => /\ a.st = "done"
                 /\ a.err = ""
                 /\ Len(a.out) = Len(a.lookups) - 1
                 /\ Len(a.out) < MaxDepth
                 /\ a.lookups[1].key = a.start
                 /\ \A i \in DOMAIN a.out :
                       /\ fut[a.lookups[i].p].st = "ok"
                       /\ a.out[i] = fut[a.lookups[i].p].val[1]
                       /\ a.out[i].id = dir.manager[a.lookups[i].key][1]
                       /\ a.lookups[i + 1].key = a.out[i].id

\* a chain three deep: the fourth lookup failed with NotFound and the three
\* managers were returned
C12_Witness ==
    \E c \in DOMAIN asc :
        /\ asc[c].start = ChainLen - 3
        /\ asc[c].st = "done"
        /\ Len(asc[c].lookups) = 4
        /\ fut[Awaited(asc[c]).p].err = "NotFound"
        /\ Len(asc[c].out) = 3
        /\ asc[c].out[3].id = ChainLen

\* C13: when a lookup of an invocation failed with a failure other than
\* NotFound, the invocation fails with that failure and returns no profile.
C13_OtherFailuresAbort ==
    \A c \in DOMAIN asc :
        LET a == asc[c]
            o == fut[Awaited(a).p]
        IN (a.st # "run" /\ o.st = "fail" /\ o.err # "NotFound")
              => /\ a.st = "fail"
                 /\ a.err = o.err
                 /\ a.out = <<>>

\* an invocation that had collected two profiles failed on its third lookup
C13_Witness ==
    \E c \in DOMAIN asc :
        /\ asc[c].st = "fail"
        /\ asc[c].err = "Error"
        /\ Len(asc[c].res) = 2
        /\ Len(asc[c].lookups) = 3
        /\ asc[c].out = <<>>

-----------------------------------------------------------------------------
(* Properties of the four operations (organisation world, Spec) *)

\* the outcome o of an operation answered with a status >= 400
Classified(o, status) ==
    /\ o.st = "fail"
    /\ o.err = "NotFound" <=> status = 404

\* C14: whenever one of the four operations is answered with a status >= 400
\* (for a profile: the status of its entry in the batch response), its
\* promise fails, with NotFound when the status is 404 and with another
\* failure otherwise.
C14_UniformClassification ==
    [][ /\ \A k \in dir.keys : \A status \in {404, 500} :
              /\ getPhotoUrlInternal(k, status)
                    => Classified(fut'[Promise("photo", k, 0)], status)
              /\ getManagerInternal(k, status)
                    => Classified(fut'[Promise("manager", k, 0)], status)
              /\ getDirectsInternal(k, status)
                    => Classified(fut'[Promise("directs", k, 0)], status)
        /\ \A b \in DOMAIN batches :
              \A status \in [DOMAIN batches[b].pq -> dir.statuses] :
                  BatchDone(b, "inorder", status)
                     => \A id \in DOMAIN batches[b].pq :
                           status[id] >= 400
                              => Classified(fut'[Promise("profile", batches[b].pq[id], 0)],
                                            status[id])
      ]_vars

\* the cache of an operation
CacheFor(op) ==
    CASE op = "profile" -> "profilesCache"
      [] op = "photo"   -> "photosCache"
      [] op = "manager" -> "managersCache"
      [] op = "directs" -> "directsCache"

\* C15: in the photo, manager and direct-reports operations, once the lookup
\* of an entity by one of its keys has resolved successfully, a lookup of
\* the entity by its other key returns that same promise and makes no fetch.
C15_Convergence ==
    (ret # <<>> /\ ret[1].op \in {"photo", "manager", "directs"})
        => \A k2 \in OtherKeys(ret[1].key) :
              LET first == Promise(ret[1].op, k2, 0)
              IN (first \in DOMAIN fut /\ fut[first].st = "ok")
                    => /\ ~ret[1].fresh
                       /\ ret[1].p = first

\* C16: once the lookup of key K in an operation has failed, its rejected
\* promise stays stored under K in the cache of the operation: a later lookup
\* of K returns it and makes no fetch.
C16_FailuresStayCached ==
    \A op \in {"profile", "photo", "manager", "directs"} : \A k \in dir.keys :
        LET p == Promise(op, k, 0)
        IN (p \in DOMAIN fut /\ fut[p].st = "fail")
              => /\ k \in DOMAIN caches[CacheFor(op)]
                 /\ caches[CacheFor(op)][k] = p
                 /\ net[p] = 1
                 /\ (ret # <<>> /\ ret[1].op = op /\ ret[1].key = k)
                       => ~ret[1].fresh /\ ret[1].p = p

\* C17: the sequence getDirects resolves to holds the profiles of exactly the
\* members of the response whose accountEnabled is not false (true or
\* absent), in response order.
C17_DisabledFiltered ==
    \A k \in dir.keys :
        LET p == Promise("directs", k, 0)
        IN (p \in DOMAIN fut /\ fut[p].st = "ok")
              => LET value == DirectReports(k)
                     kept == {i \in DOMAIN value : value[i].accountEnabled # "false"}
                     val == fut[p].val
                 IN /\ Len(val) = Cardinality(kept)
                    /\ \E f \in [DOMAIN val -> kept] :
                          /\ \A i, j \in DOMAIN val : i < j => f[i] < f[j]
                          /\ \A i \in DOMAIN val :
                                /\ val[i].id = value[f[i]].id
                                /\ val[i].email = value[f[i]].mail

\* the reports of b (a: flag absent, c: false, d: true) resolved to <<a, d>>
C17_Witness ==
    LET p == Promise("directs", "b", 0)
    IN /\ p \in DOMAIN fut
       /\ fut[p].st = "ok"
       /\ Len(fut[p].val) = 2
       /\ fut[p].val[1].id = "a"
       /\ fut[p].val[2].id = "d"

\* the keys a profile is stored under
KeysOf(profile) ==
    {profile.id} \cup (IF profile.email = <<>> THEN {} ELSE {profile.email[1]})

\* the profile cache holds, under each key of the profile, a promise fulfilled
\* with it, and a resolveProfile of such a key that has just returned made
\* no fetch
Seeded(profile) ==
    \A x \in KeysOf(profile) :
        /\ x \in DOMAIN caches.profilesCache
        /\ fut[caches.profilesCache[x]].st = "ok"
        /\ fut[caches.profilesCache[x]].val[1] = profile
        /\ (ret # <<>> /\ ret[1].op = "profile" /\ ret[1].key = x) => ~ret[1].fresh

\* C18: once getManager(K) has resolved to M, the profile cache holds under
\* M.id, and under M.email when M has one, a promise fulfilled with M, so a
\* resolveProfile by either makes no fetch; the step in which getManager(K)
\* fails leaves the profile cache as it was.
C18_ManagerSeedsProfile ==
    /\ [](\A k \in dir.keys :
            LET p == Promise("manager", k, 0)
            IN (p \in DOMAIN fut /\ fut[p].st = "ok") => Seeded(fut[p].val[1]))
    /\ [][\A k \in dir.keys : \A status \in {404, 500} :
            getManagerInternal(k, status)
               => caches'.profilesCache = caches.profilesCache]_vars

\* no profile was ever requested, getManager("b") resolved to a, and
\* resolveProfile("ea") returned the manager promise without a fetch
C18_Witness ==
    /\ ret # <<>>
    /\ ret[1].op = "profile"
    /\ ret[1].key = "ea"
    /\ ~ret[1].fresh
    /\ ret[1].p = Promise("manager", "b", 0)
    /\ fut[ret[1].p].val[1].id = "a"
    /\ \A p \in DOMAIN fut : p.op # "profile"

\* C19: once getDirects(K) has resolved, the profile cache holds for every
\* member D of the result, under D.id and under D.email when D has one, a
\* promise fulfilled with D, so a resolveProfile of a member makes no fetch;
\* the step in which getDirects(K) fails leaves the profile cache as it was.
C19_DirectsSeedProfiles ==
    /\ [](\A k \in dir.keys :
            LET p == Promise("directs", k, 0)
            IN (p \in DOMAIN fut /\ fut[p].st = "ok")
                  => \A i \in DOMAIN fut[p].val : Seeded(fut[p].val[i]))
    /\ [][\A k \in dir.keys : \A status \in {404, 500} :
            getDirectsInternal(k, status)
               => caches'.profilesCache = caches.profilesCache]_vars

\* no profile was ever requested, getDirects("b") resolved to <<a, d>>, and
\* resolveProfile("ea") returned the promise seeded for a without a fetch
C19_Witness ==
    /\ ret # <<>>
    /\ ret[1].op = "profile"
    /\ ret[1].key = "ea"
    /\ ~ret[1].fresh
    /\ ret[1].p = Promise("seed", "b", 1)
    /\ fut[Promise("directs", "b", 0)].st = "ok"
    /\ \A p \in DOMAIN fut : p.op # "profile"

-----------------------------------------------------------------------------
(* Size of the queue and of the batches (bulk world, SpecBatch) *)

\* C20: whenever a step ends the queue holds at most 20 requests; every
\* snapshot, and so the body of every batch call, holds between 1 and 20
\* requests; a timer callback that finds the queue empty takes no snapshot
\* and sends nothing.
C20_QueueBounded ==
    /\ [](/\ Cardinality(DOMAIN queue) <= BatchThreshold
          /\ \A b \in DOMAIN batches :
                /\ Len(batches[b].requests) \in 1..BatchThreshold
                /\ batches[b].body # <<>>
                      => Len(batches[b].body[1]) \in 1..BatchThreshold)
    /\ [][\A t \in timers :
            (TimerFire(t) /\ DOMAIN queue = {})
               => /\ Len(batches') = Len(batches)
                  /\ sent' = sent
                  /\ queue' = queue]_vars

\* the 20th enqueue took a snapshot of 20, the timer the 19th had armed then
\* fired on the empty queue, and the one batch call carries the 20 requests
C20_Witness ==
    /\ Len(batches) = 1
    /\ batches[1].caller = BatchThreshold
    /\ batches[1].stage = "fetch"
    /\ Len(batches[1].body[1]) = BatchThreshold
    /\ batches[1].overtaken
    /\ DOMAIN queue = {}
    /\ timers = {}

====
